---- MODULE Spec2Model ----
(***************************************************************************)
(* Model of src/utils/stripe.ts: the subscription-gated usage quota        *)
(* (checkLessonPlanCreationEligibility with the hasSubscription call it    *)
(* makes) and the payment-customer bootstrap (createCustomerIfNull).       *)
(*                                                                         *)
(* All instants are integer milliseconds since the epoch, as the values    *)
(* of Date.getTime(); subscription periods are epoch seconds, as Stripe    *)
(* returns them.  The model's epoch is chosen small so that every instant  *)
(* fits TLC's integers; nothing in the code depends on the absolute date.  *)
(***************************************************************************)
EXTENDS Integers, Sequences, FiniteSets

VARIABLES
  now,          \* the system clock, ms
  ticks,        \* how many times the clock has advanced
  userDB,       \* prisma.user: userId -> [exists, stripe_customer_id]
  stripeSubs,   \* stripe.subscriptions: customer id -> sequence of subscriptions
  lessonPlans,  \* prisma.lessonPlan: [userId, createdAt] -> number of rows
  added,        \* usage events recorded since the initial state
  pc,           \* position of the running evaluation
  ev,           \* locals of the running evaluation
  calls,        \* collaborator calls of the running evaluation, with outcome
  result,       \* what the running evaluation gave its caller
  prev,         \* summary of the evaluation that returned before this one
  stripeCustomers, \* stripe.customers: customer id -> owner userId
  cpc,          \* createCustomerIfNull: position of each call
  cloc,         \* createCustomerIfNull: locals of each call
  cret          \* createCustomerIfNull: what each call returned

vars == <<now, ticks, userDB, stripeSubs, lessonPlans, added, pc, ev, calls,
          result, prev, stripeCustomers, cpc, cloc, cret>>

evalVars == <<pc, ev, calls, result, prev>>
custVars == <<stripeCustomers, cpc, cloc, cret>>

-----------------------------------------------------------------------------
(* Bounds of the model *)

MaxTicks == 2       \* clock advances per behaviour
MaxNewEvents == 2   \* usage events recorded per behaviour
NumCalls == 2       \* concurrent createCustomerIfNull calls

-----------------------------------------------------------------------------
(* Program constants *)

SubscribedLimit == 30
FreeLimit == 10
FreeWindowMs == 30 * 24 * 60 * 1000
ResetOffsetMs == 24 + 60 * 60 * 1000
MsPerDay == 24 * 60 * 60 * 1000

-----------------------------------------------------------------------------
(* Values *)

NoId == "none"
\* u1 and u2 have a persisted record; u3 is known to the auth provider only.
UserIds == {"u1", "u2"}
AuthIds == UserIds \cup {"u3"}

\* Payment-customer identifiers are numbered in the order Stripe creates them;
\* NoCustomer stands for a null stripe_customer_id.
NoCustomer == 0
ExistingCustomer == 1

StartClock == 50000 * 1000

\* Clock steps: one millisecond, and the length of the free-tier window.
ClockSteps == {1, FreeWindowMs}

Statuses == {"active", "canceled"}

\* Billing periods, epoch seconds.  The first starts at the initial clock and
\* ends one free-tier window later; the second covers every instant.
Periods == { <<50000, 50000 + 43200>>, <<0, 200000>> }

Subscriptions ==
  { [status |-> s, current_period_start |-> p[1], current_period_end |-> p[2]]
      : s \in Statuses, p \in Periods }

\* What stripe.subscriptions.list may return: nothing, one subscription, or
\* two that differ in status and in period.
SubscriptionLists ==
  {<<>>} \cup { <<a>> : a \in Subscriptions }
         \cup { <<a, b>> \in Subscriptions \X Subscriptions :
                  /\ a.status # b.status
                  /\ a.current_period_end # b.current_period_end }

\* Rows the usage store holds for u1 initially, created one millisecond
\* before the initial clock.
InitCounts == {0, 9, 29}
PreloadTime == StartClock - 1

Max(a, b) == IF a >= b THEN a ELSE b

-----------------------------------------------------------------------------
(* The usage store *)

Row(u, t) == [userId |-> u, createdAt |-> t]

RECURSIVE SumRows(_, _)
SumRows(lp, keys) ==
  IF keys = {} THEN 0
  ELSE LET k == CHOOSE x \in keys : TRUE
       IN lp[k] + SumRows(lp, keys \ {k})

\* Variant: the upper end of the window is exclusive (lt for lte).
LessonPlanCountExclusive(lp, userId, gte, lte) ==
  SumRows(lp, { k \in DOMAIN lp :
                  /\ k.userId = userId
                  /\ k.createdAt >= gte
                  /\ k.createdAt < lte })

\* prisma.lessonPlan.count({where: {userId, createdAt: {gte, lte}}})
LessonPlanCount(lp, userId, gte, lte) ==
  SumRows(lp, { k \in DOMAIN lp :
                  /\ k.userId = userId
                  /\ k.createdAt >= gte
                  /\ k.createdAt <= lte })

TotalRows(lp) == SumRows(lp, DOMAIN lp)

\* One more row for user u created at instant t.
Insert(lp, u, t) ==
  IF Row(u, t) \in DOMAIN lp
    THEN [lp EXCEPT ![Row(u, t)] = @ + 1]
    ELSE [k \in DOMAIN lp \cup {Row(u, t)} |->
            IF k = Row(u, t) THEN 1 ELSE lp[k]]

Preload(n, t) ==
  IF n = 0 THEN [k \in {} |-> 0] ELSE [k \in {Row("u1", t)} |-> n]

-----------------------------------------------------------------------------
(* The decision logic of checkLessonPlanCreationEligibility *)

\* new Date(seconds * 1000)
DateOfSeconds(s) == s * 1000

\* Date.toLocaleDateString(): the calendar day of an instant (UTC day number).
ToLocaleDateString(ms) == ms \div MsPerDay

\* Variant: an active subscription anywhere in the list is preferred to the
\* first one.
BillingWindowAnyActive(subscriptionData, currentDate) ==
  IF Len(subscriptionData) > 0
    THEN LET actives == { i \in DOMAIN subscriptionData :
                            subscriptionData[i].status = "active" }
             subscription ==
               IF actives = {} THEN subscriptionData[1]
               ELSE subscriptionData[CHOOSE i \in actives :
                                       \A j \in actives : i <= j]
         IN [isSubscribed |-> subscription.status = "active",
             periodStart |-> DateOfSeconds(subscription.current_period_start),
             periodEnd |-> DateOfSeconds(subscription.current_period_end)]
    ELSE [isSubscribed |-> FALSE,
          periodStart |-> currentDate - FreeWindowMs,
          periodEnd |-> currentDate]

\* Lines 158-170: subscription flag and counting window.
BillingWindow(subscriptionData, currentDate) ==
  IF Len(subscriptionData) > 0
    THEN LET subscription == subscriptionData[1]
         IN [isSubscribed |-> subscription.status = "active",
             periodStart |-> DateOfSeconds(subscription.current_period_start),
             periodEnd |-> DateOfSeconds(subscription.current_period_end)]
    ELSE [isSubscribed |-> FALSE,
          periodStart |-> currentDate - FreeWindowMs,
          periodEnd |-> currentDate]

UsageLimit(isSubscribed) == IF isSubscribed THEN SubscribedLimit ELSE FreeLimit

\* Variant: the difference is not clamped at zero.
RemainingUnclamped(isSubscribed, count) ==
  UsageLimit(isSubscribed) - count

RemainingGenerations(isSubscribed, count) ==
  Max(0, UsageLimit(isSubscribed) - count)

\* Variant: the reset instant is one day after the evaluation.
ResetInstantNextDay(isSubscribed, periodEnd, currentDate) ==
  IF isSubscribed THEN periodEnd ELSE currentDate + MsPerDay

\* Variant: the reset instant is taken from the clock for every tier.
ResetInstantFromClock(isSubscribed, periodEnd, currentDate) ==
  currentDate + ResetOffsetMs

\* Lines 186-190: the instant whose date goes into the exhausted message.
ResetInstant(isSubscribed, periodEnd, currentDate) ==
  IF isSubscribed THEN periodEnd ELSE currentDate + ResetOffsetMs

Message(template, n, plural, date) ==
  [template |-> template, n |-> n, plural |-> plural, date |-> date]

LoginRequired ==
  [kind |-> "decision",
   isEligible |-> FALSE,
   message |-> Message("must be logged in", 0, FALSE, -1),
   remainingGenerations |-> 0]

\* Lines 182-207.
Decide(isSubscribed, periodEnd, currentDate, count) ==
  LET remainingGenerations == RemainingGenerations(isSubscribed, count)
      resetDate ==
        ToLocaleDateString(ResetInstant(isSubscribed, periodEnd, currentDate))
  IN IF remainingGenerations = 0
       THEN [kind |-> "decision",
             isEligible |-> FALSE,
             message |->
               IF isSubscribed
                 THEN Message("maximum (30) for this subscription period",
                              0, FALSE, resetDate)
                 ELSE Message("maximum (10) for the free tier",
                              0, FALSE, resetDate),
             remainingGenerations |-> 0]
       ELSE [kind |-> "decision",
             isEligible |-> TRUE,
             message |->
               Message(IF isSubscribed THEN "remaining for this billing cycle"
                                       ELSE "remaining for this month",
                       remainingGenerations, remainingGenerations # 1, -1),
             remainingGenerations |-> remainingGenerations]

Thrown == [kind |-> "thrown"]
Pending == [kind |-> "pending"]

-----------------------------------------------------------------------------
(* checkLessonPlanCreationEligibility, one action per awaited step *)

BlankEv ==
  [userId |-> NoId, user |-> NoId, customer |-> NoCustomer,
   subscriptionData |-> <<>>, currentDate |-> -1, isSubscribed |-> FALSE,
   periodStart |-> -1, periodEnd |-> -1, count |-> -1, resetInstant |-> -1,
   rows |-> -1]

Outcome(ok) == IF ok THEN "ok" ELSE "throws"

\* auth() followed by await currentUser(); fail names the call that throws.
IdentityCalls(fail) ==
  IF fail = "auth"
    THEN {<<"auth", "throws">>}
    ELSE {<<"auth", "ok">>, <<"currentUser", Outcome(fail # "currentUser")>>}

Throw ==
  /\ pc' = "error"
  /\ result' = Thrown

ReturnDecision(d) ==
  /\ pc' = "done"
  /\ result' = d

\* Lines 128-137.
CheckIdentity(userId, user, fail) ==
  /\ pc = "idle"
  /\ calls' = IdentityCalls(fail)
  /\ ev' = [BlankEv EXCEPT !.userId = userId, !.user = user]
  /\ IF fail # "none" THEN Throw
     ELSE IF userId = NoId \/ user = NoId THEN ReturnDecision(LoginRequired)
     ELSE pc' = "find" /\ result' = Pending
  /\ UNCHANGED <<now, ticks, userDB, stripeSubs, lessonPlans, added, prev>>
  /\ UNCHANGED custVars

\* Variant: a missing record is not checked for.
FindUserUnchecked(ok) ==
  /\ pc = "find"
  /\ calls' = calls \cup {<<"user.findUnique", Outcome(ok)>>}
  /\ IF ~ok THEN Throw
     ELSE pc' = "hsIdentity" /\ result' = Pending
  /\ UNCHANGED <<now, ticks, userDB, stripeSubs, lessonPlans, added, ev, prev>>
  /\ UNCHANGED custVars

\* Lines 139-152.
FindUser(ok) ==
  /\ pc = "find"
  /\ calls' = calls \cup {<<"user.findUnique", Outcome(ok)>>}
  /\ IF ~ok THEN Throw
     ELSE IF ~userDB[ev.userId].exists THEN ReturnDecision(LoginRequired)
     ELSE pc' = "hsIdentity" /\ result' = Pending
  /\ UNCHANGED <<now, ticks, userDB, stripeSubs, lessonPlans, added, ev, prev>>
  /\ UNCHANGED custVars

\* hasSubscription, lines 19-22 and 46-49.
HsIdentity(fail) ==
  /\ pc = "hsIdentity"
  /\ calls' = calls \cup IdentityCalls(fail)
  /\ IF fail # "none" THEN Throw /\ ev' = ev
     ELSE IF ev.userId # NoId /\ ev.user # NoId
       THEN pc' = "hsFind" /\ result' = Pending /\ ev' = ev
       ELSE /\ pc' = "count"
            /\ result' = Pending
            /\ ev' = [ev EXCEPT !.subscriptionData = <<>>]
  /\ UNCHANGED <<now, ticks, userDB, stripeSubs, lessonPlans, added, prev>>
  /\ UNCHANGED custVars

\* hasSubscription, lines 23-34.
HsFindUser(ok) ==
  /\ pc = "hsFind"
  /\ calls' = calls \cup {<<"user.findUnique", Outcome(ok)>>}
  /\ IF ~ok THEN Throw /\ ev' = ev
     ELSE IF ~userDB[ev.userId].exists
             \/ userDB[ev.userId].stripe_customer_id = NoCustomer
       THEN /\ pc' = "count"
            /\ result' = Pending
            /\ ev' = [ev EXCEPT !.subscriptionData = <<>>]
       ELSE /\ pc' = "hsList"
            /\ result' = Pending
            /\ ev' = [ev EXCEPT !.customer = userDB[ev.userId].stripe_customer_id]
  /\ UNCHANGED <<now, ticks, userDB, stripeSubs, lessonPlans, added, prev>>
  /\ UNCHANGED custVars

\* Variant: a failed listing is caught and read as "no subscription".
HsListSubscriptionsCaught(ok) ==
  /\ pc = "hsList"
  /\ calls' = calls \cup {<<"subscriptions.list", Outcome(ok)>>}
  /\ pc' = "count"
  /\ result' = Pending
  /\ ev' = [ev EXCEPT !.subscriptionData =
                         IF ok THEN stripeSubs[ev.customer] ELSE <<>>]
  /\ UNCHANGED <<now, ticks, userDB, stripeSubs, lessonPlans, added, prev>>
  /\ UNCHANGED custVars

\* hasSubscription, lines 36-43.
HsListSubscriptions(ok) ==
  /\ pc = "hsList"
  /\ calls' = calls \cup {<<"subscriptions.list", Outcome(ok)>>}
  /\ IF ~ok THEN Throw /\ ev' = ev
     ELSE /\ pc' = "count"
          /\ result' = Pending
          /\ ev' = [ev EXCEPT !.subscriptionData = stripeSubs[ev.customer]]
  /\ UNCHANGED <<now, ticks, userDB, stripeSubs, lessonPlans, added, prev>>
  /\ UNCHANGED custVars

\* Lines 156-207: the clock is read, the window fixed, the rows counted and
\* the decision built.
CountStep(ok) ==
  /\ pc = "count"
  /\ calls' = calls \cup {<<"lessonPlan.count", Outcome(ok)>>}
  /\ LET currentDate == now
         w == BillingWindow(ev.subscriptionData, currentDate)
         count == LessonPlanCount(lessonPlans, ev.userId,
                                  w.periodStart, w.periodEnd)
         located == [ev EXCEPT !.currentDate = currentDate,
                               !.isSubscribed = w.isSubscribed,
                               !.periodStart = w.periodStart,
                               !.periodEnd = w.periodEnd,
                               !.rows = TotalRows(lessonPlans)]
     IN IF ~ok THEN Throw /\ ev' = located
        ELSE /\ ReturnDecision(Decide(w.isSubscribed, w.periodEnd,
                                      currentDate, count))
             /\ ev' = [located EXCEPT
                         !.count = count,
                         !.resetInstant =
                           IF RemainingGenerations(w.isSubscribed, count) = 0
                             THEN ResetInstant(w.isSubscribed, w.periodEnd,
                                               currentDate)
                             ELSE -1]

\* Variant: the evaluation itself records a usage row.
CountAndRecord(ok) ==
  /\ CountStep(ok)
  /\ lessonPlans' = Insert(lessonPlans, ev.userId, now)
  /\ UNCHANGED <<now, ticks, userDB, stripeSubs, added, prev>>
  /\ UNCHANGED custVars

CountAndDecide(ok) ==
  /\ CountStep(ok)
  /\ UNCHANGED <<now, ticks, userDB, stripeSubs, lessonPlans, added, prev>>
  /\ UNCHANGED custVars

\* The caller takes the outcome; the next request may start.
Finish ==
  /\ pc \in {"done", "error"}
  /\ pc' = "idle"
  /\ ev' = BlankEv
  /\ calls' = {}
  /\ result' = Pending
  /\ UNCHANGED <<now, ticks, userDB, stripeSubs, lessonPlans, added>>
  /\ UNCHANGED custVars

Return ==
  /\ Finish
  /\ prev' = prev

\* The same, by a caller that keeps the outcome to compare the next one with.
ReturnAndKeep ==
  /\ Finish
  /\ prev' = [userId |-> ev.userId, user |-> ev.user,
              currentDate |-> ev.currentDate, rows |-> ev.rows,
              result |-> result]

-----------------------------------------------------------------------------
(* The environment of the evaluator *)

Tick(d) ==
  /\ ticks < MaxTicks
  /\ now' = now + d
  /\ ticks' = ticks + 1
  /\ UNCHANGED <<userDB, stripeSubs, lessonPlans, added>>
  /\ UNCHANGED evalVars
  /\ UNCHANGED custVars

\* A lesson plan is generated for user u: one row, created now.
AddUsage(u) ==
  /\ added < MaxNewEvents
  /\ userDB[u].exists
  /\ lessonPlans' = Insert(lessonPlans, u, now)
  /\ added' = added + 1
  /\ UNCHANGED <<now, ticks, userDB, stripeSubs>>
  /\ UNCHANGED evalVars
  /\ UNCHANGED custVars

-----------------------------------------------------------------------------
(* createCustomerIfNull, one action per awaited step *)

Calls == 1 .. NumCalls

BlankCust == [user |-> NoId, customer |-> NoCustomer]

\* stripe.customers.create: the identifier of the next customer.
FreshCustomer == Cardinality(stripeCustomers) + 1

\* Lines 53-56.
CustCurrentUser(c, user) ==
  /\ cpc[c] = "start"
  /\ cloc' = [cloc EXCEPT ![c].user = user]
  /\ cpc' = [cpc EXCEPT ![c] = IF user = NoId THEN "thrown" ELSE "find"]
  /\ UNCHANGED <<stripeCustomers, cret>>
  /\ UNCHANGED <<now, ticks, userDB, stripeSubs, lessonPlans, added>>
  /\ UNCHANGED evalVars

\* Lines 58-65.
CustFindUser(c) ==
  /\ cpc[c] = "find"
  /\ LET dbUser == userDB[cloc[c].user]
     IN IF dbUser.exists /\ dbUser.stripe_customer_id # NoCustomer
          THEN /\ cpc' = [cpc EXCEPT ![c] = "returned"]
               /\ cret' = [cret EXCEPT ![c] = dbUser.stripe_customer_id]
          ELSE /\ cpc' = [cpc EXCEPT ![c] = "create"]
               /\ cret' = cret
  /\ UNCHANGED <<stripeCustomers, cloc>>
  /\ UNCHANGED <<now, ticks, userDB, stripeSubs, lessonPlans, added>>
  /\ UNCHANGED evalVars

\* Lines 67-70.
CustCreate(c) ==
  /\ cpc[c] = "create"
  /\ stripeCustomers' =
       stripeCustomers \cup {[id |-> FreshCustomer, owner |-> cloc[c].user]}
  /\ cloc' = [cloc EXCEPT ![c].customer = FreshCustomer]
  /\ cpc' = [cpc EXCEPT ![c] = "update"]
  /\ UNCHANGED cret
  /\ UNCHANGED <<now, ticks, userDB, stripeSubs, lessonPlans, added>>
  /\ UNCHANGED evalVars

\* Lines 72-77; prisma.user.update throws when the record does not exist.
CustUpdate(c) ==
  /\ cpc[c] = "update"
  /\ IF userDB[cloc[c].user].exists
       THEN /\ userDB' = [userDB EXCEPT
                            ![cloc[c].user].stripe_customer_id = cloc[c].customer]
            /\ cpc' = [cpc EXCEPT ![c] = "returned"]
            /\ cret' = [cret EXCEPT ![c] = cloc[c].customer]
       ELSE /\ cpc' = [cpc EXCEPT ![c] = "thrown"]
            /\ UNCHANGED <<userDB, cret>>
  /\ UNCHANGED <<stripeCustomers, cloc>>
  /\ UNCHANGED <<now, ticks, stripeSubs, lessonPlans, added>>
  /\ UNCHANGED evalVars

-----------------------------------------------------------------------------
(* Specifications *)

UserRecord(exists, customer) ==
  [exists |-> exists, stripe_customer_id |-> customer]

InitCustomerCalls ==
  /\ cpc = [c \in Calls |-> "start"]
  /\ cloc = [c \in Calls |-> BlankCust]
  /\ cret = [c \in Calls |-> NoCustomer]

InitEvaluator ==
  /\ pc = "idle"
  /\ ev = BlankEv
  /\ calls = {}
  /\ result = Pending
  /\ prev = [userId |-> NoId, user |-> NoId, currentDate |-> -1, rows |-> -1,
             result |-> Pending]

\* u1 has a record, linked to a payment customer or not; u2 has an unlinked
\* record; u3 has none.  An unlinked u1 has no subscriptions to list.
Init ==
  /\ now = StartClock
  /\ ticks = 0
  /\ added = 0
  /\ \E linked \in BOOLEAN :
       /\ userDB = [u \in AuthIds |->
                      IF u = "u1"
                        THEN UserRecord(TRUE, IF linked THEN ExistingCustomer
                                                        ELSE NoCustomer)
                        ELSE UserRecord(u \in UserIds, NoCustomer)]
       /\ stripeCustomers =
            IF linked THEN {[id |-> ExistingCustomer, owner |-> "u1"]} ELSE {}
       /\ \E l \in SubscriptionLists :
            /\ linked \/ l = <<>>
            /\ stripeSubs = [c \in {ExistingCustomer} |-> l]
  /\ \E n \in InitCounts : lessonPlans = Preload(n, PreloadTime)
  /\ InitEvaluator
  /\ InitCustomerCalls

Sessions ==
  { <<u, v>> \in (AuthIds \cup {NoId}) \X (AuthIds \cup {NoId}) :
      v = NoId \/ v = u }

Evaluate ==
  \/ \E s \in Sessions, fail \in {"none", "auth", "currentUser"} :
       CheckIdentity(s[1], s[2], fail)
  \/ \E ok \in BOOLEAN : FindUser(ok)
  \/ \E fail \in {"none", "auth", "currentUser"} : HsIdentity(fail)
  \/ \E ok \in BOOLEAN : HsFindUser(ok)
  \/ \E ok \in BOOLEAN : HsListSubscriptions(ok)
  \/ \E ok \in BOOLEAN : CountAndDecide(ok)

Next ==
  \/ Evaluate
  \/ Return
  \/ \E d \in ClockSteps : Tick(d)
  \/ \E u \in UserIds : AddUsage(u)

Spec == Init /\ [][Next]_vars

\* Calls in which no collaborator fails, made one after the other by one
\* client (u1, signed in or not) that compares consecutive outcomes.
RepeatSessions == { s \in Sessions : s[1] \in {"u1", NoId} }

EvaluateOk ==
  \/ \E s \in RepeatSessions : CheckIdentity(s[1], s[2], "none")
  \/ FindUser(TRUE)
  \/ HsIdentity("none")
  \/ HsFindUser(TRUE)
  \/ HsListSubscriptions(TRUE)
  \/ CountAndDecide(TRUE)

NextRepeat ==
  \/ EvaluateOk
  \/ ReturnAndKeep
  \/ \E d \in ClockSteps : Tick(d)
  \/ AddUsage("u1")

SpecRepeat == Init /\ [][NextRepeat]_vars

\* Concurrent createCustomerIfNull calls against the same stores.
InitCustomers ==
  /\ now = StartClock
  /\ ticks = 0
  /\ added = 0
  /\ lessonPlans = Preload(0, PreloadTime)
  /\ stripeSubs = [c \in {ExistingCustomer} |-> <<>>]
  /\ \E linked \in BOOLEAN :
       /\ userDB = [u \in AuthIds |->
                      IF u = "u1"
                        THEN UserRecord(TRUE, IF linked THEN ExistingCustomer
                                                        ELSE NoCustomer)
                        ELSE UserRecord(u \in UserIds, NoCustomer)]
       /\ stripeCustomers =
            IF linked THEN {[id |-> ExistingCustomer, owner |-> "u1"]} ELSE {}
  /\ InitEvaluator
  /\ InitCustomerCalls

NextCustomers ==
  \E c \in Calls :
    \/ \E user \in AuthIds \cup {NoId} : CustCurrentUser(c, user)
    \/ CustFindUser(c)
    \/ CustCreate(c)
    \/ CustUpdate(c)

SpecCustomers == InitCustomers /\ [][NextCustomers]_vars

-----------------------------------------------------------------------------
(* Properties *)

Ended == pc \in {"done", "error"}
Decided == pc = "done" /\ ev.count >= 0
SomeCallThrew == \E c \in calls : c[2] = "throws"
CalledCollaborators == { c[1] : c \in calls }

\* No row was stored after the running evaluation counted.
StoreAsCounted == ev.rows = TotalRows(lessonPlans)

\* The rows of user u created within [from, to], counted from the store.
RowsWithin(u, from, to) ==
  SumRows(lessonPlans, { k \in DOMAIN lessonPlans :
                           k.userId = u /\ from <= k.createdAt /\ k.createdAt <= to })

\* The identity the running evaluation was given does not resolve.
IdentityUnresolved ==
  \/ ev.userId = NoId
  \/ ev.user = NoId
  \/ ~userDB[ev.userId].exists

\* C1: an evaluation whose identity does not resolve (no userId, no current
\* user, or no persisted record) never calls stripe.subscriptions.list nor
\* lessonPlan.count, goes no further than the user lookup, and, when it
\* returns, returns a decision with isEligible = FALSE and
\* remainingGenerations = 0; it ends in an error only if a call threw.
C1_UnresolvedIdentity ==
  (pc # "idle" /\ IdentityUnresolved) =>
    /\ CalledCollaborators \cap {"subscriptions.list", "lessonPlan.count"} = {}
    /\ pc \in {"find", "done", "error"}
    /\ pc = "error" => SomeCallThrew
    /\ pc = "done" =>
         /\ result.kind = "decision"
         /\ result.isEligible = FALSE
         /\ result.remainingGenerations = 0

C1_Witness ==
  /\ pc = "done"
  /\ ev.userId = "u3"
  /\ ev.user = "u3"
  /\ result.kind = "decision"
  /\ ~result.isEligible

\* C2: for a resolved user the limit is 30 exactly when a first subscription
\* exists with status "active" and 10 otherwise, remainingGenerations is
\* max(0, limit - count), and isEligible holds exactly when it is positive.
C2_Quota ==
  Decided =>
    LET active == /\ Len(ev.subscriptionData) > 0
                  /\ ev.subscriptionData[1].status = "active"
        limit == IF active THEN 30 ELSE 10
        remaining == IF limit - ev.count > 0 THEN limit - ev.count ELSE 0
    IN /\ result.kind = "decision"
       /\ result.remainingGenerations = remaining
       /\ result.isEligible = (remaining > 0)

C2_Witness ==
  /\ Decided
  /\ ev.isSubscribed
  /\ ev.count > 30
  /\ result.remainingGenerations = 0
  /\ ~result.isEligible

\* C3: the counting window is [current_period_start, current_period_end] of
\* the first subscription of the user's customer whenever one exists, whatever
\* its status, and [now - 30*24*60 s, now] when the user has no subscription
\* or no linked customer; the count is the number of the user's rows whose
\* creation time lies in the window, both ends included.
C3_Window ==
  (Decided /\ StoreAsCounted) =>
    LET customer == userDB[ev.userId].stripe_customer_id
        listed == IF customer = NoCustomer THEN <<>> ELSE stripeSubs[customer]
        from == IF Len(listed) > 0
                  THEN listed[1].current_period_start * 1000
                  ELSE ev.currentDate - 30 * 24 * 60 * 1000
        to == IF Len(listed) > 0
                THEN listed[1].current_period_end * 1000
                ELSE ev.currentDate
    IN /\ ev.periodStart = from
       /\ ev.periodEnd = to
       /\ ev.count = RowsWithin(ev.userId, from, to)

\* A canceled first subscription fixes the window: rows on its bounds are
\* counted, the row before its start is not, and the limit is 10.
C3_Witness ==
  /\ Decided
  /\ StoreAsCounted
  /\ Len(ev.subscriptionData) > 0
  /\ ev.subscriptionData[1].status = "canceled"
  /\ Row(ev.userId, ev.periodStart) \in DOMAIN lessonPlans
  /\ Row(ev.userId, ev.periodEnd) \in DOMAIN lessonPlans
  /\ Row(ev.userId, ev.periodStart - 1) \in DOMAIN lessonPlans
  /\ ev.count = 2
  /\ result.remainingGenerations = 8

SameCaller == prev.userId = ev.userId /\ prev.user = ev.user

\* C4 as stated: two consecutive calls of the same caller with no usage row
\* stored between them return identical decisions.
C4_Idempotent ==
  (pc = "done" /\ prev.result.kind = "decision" /\ SameCaller
     /\ prev.rows = ev.rows)
    => result = prev.result

\* C4, amended: two consecutive calls of the same caller with no usage row
\* stored between them return identical decisions when both read the same
\* clock value or the first subscription is active.
C4_IdempotentSameClockOrActive ==
  (pc = "done" /\ prev.result.kind = "decision" /\ SameCaller
     /\ prev.rows = ev.rows
     /\ (prev.currentDate = ev.currentDate \/ ev.isSubscribed))
    => result = prev.result

C4_Witness ==
  /\ Decided
  /\ prev.result.kind = "decision"
  /\ SameCaller
  /\ prev.rows = ev.rows
  /\ ev.isSubscribed
  /\ ToLocaleDateString(prev.currentDate) < ToLocaleDateString(ev.currentDate)
  /\ ~result.isEligible
  /\ result = prev.result

EvaluatorStep == pc' # pc \/ ev' # ev \/ calls' # calls \/ result' # result

\* C5: no step of an evaluation (hasSubscription included) changes the user
\* records, the subscription records, the payment customers or the usage rows.
C5_ReadOnly ==
  [][EvaluatorStep =>
       UNCHANGED <<userDB, stripeSubs, stripeCustomers, lessonPlans>>]_vars

C5_Witness ==
  /\ Decided
  /\ ev.userId = "u1"
  /\ userDB["u1"].stripe_customer_id = ExistingCustomer
  /\ "subscriptions.list" \in CalledCollaborators
  /\ ev.count > 0
  /\ ~result.isEligible

\* C6: a collaborator call that throws ends the evaluation at once in an
\* error and no decision; an evaluation returns a decision only when no call
\* threw, and that decision is eligible, exhausted or login-required.
C6_FailurePropagates ==
  /\ SomeCallThrew => (pc = "error" /\ result = Thrown)
  /\ pc = "error" => SomeCallThrew
  /\ pc = "done" =>
       /\ result.kind = "decision"
       /\ result.message.template \in
            {"must be logged in",
             "maximum (30) for this subscription period",
             "maximum (10) for the free tier",
             "remaining for this billing cycle",
             "remaining for this month"}

C6_Witness ==
  /\ pc = "error"
  /\ <<"subscriptions.list", "throws">> \in calls
  /\ result = Thrown

\* C7: only the first subscription of the list decides: window, subscription
\* flag, count and decision are those obtained from the list cut to its first
\* element; a non-active first subscription followed by an active one gives the
\* limit 10 and the first subscription's period.
C7_FirstOnly ==
  (Decided /\ StoreAsCounted) =>
    LET first == IF ev.subscriptionData = <<>> THEN <<>>
                 ELSE <<ev.subscriptionData[1]>>
        w == BillingWindow(first, ev.currentDate)
        count == RowsWithin(ev.userId, w.periodStart, w.periodEnd)
    IN /\ ev.isSubscribed = w.isSubscribed
       /\ ev.periodStart = w.periodStart
       /\ ev.periodEnd = w.periodEnd
       /\ ev.count = count
       /\ result = Decide(w.isSubscribed, w.periodEnd, ev.currentDate, count)
       /\ (/\ Len(ev.subscriptionData) = 2
           /\ ev.subscriptionData[1].status # "active"
           /\ ev.subscriptionData[2].status = "active")
          => /\ ~ev.isSubscribed
             /\ ev.periodEnd = ev.subscriptionData[1].current_period_end * 1000
             /\ result.remainingGenerations + ev.count >= 10
             /\ result.remainingGenerations <= 10

C7_Witness ==
  /\ Decided
  /\ StoreAsCounted
  /\ Len(ev.subscriptionData) = 2
  /\ ev.subscriptionData[1].status = "canceled"
  /\ ev.subscriptionData[2].status = "active"
  /\ ev.count > 0
  /\ result.remainingGenerations = 10 - ev.count

Exhausted == Decided /\ result.remainingGenerations = 0

\* C8 as stated: with remainingGenerations = 0 the reset instant is
\* current_period_end for an active subscriber and, for anyone else, the
\* evaluation time plus 24 seconds plus 3600 milliseconds.
C8_ResetAsStated ==
  Exhausted =>
    ev.resetInstant =
      IF ev.isSubscribed
        THEN ev.subscriptionData[1].current_period_end * 1000
        ELSE ev.currentDate + 24 * 1000 + 3600

\* C8, amended: with remainingGenerations = 0 the reset instant is
\* current_period_end for an active subscriber and, for anyone else, the
\* evaluation time plus 24 milliseconds plus 3 600 000 milliseconds (one
\* hour), which is not 24 hours.
C8_ResetInstant ==
  Exhausted =>
    /\ ev.resetInstant =
         IF ev.isSubscribed
           THEN ev.subscriptionData[1].current_period_end * 1000
           ELSE ev.currentDate + 24 + 3600000
    /\ ~ev.isSubscribed => ev.resetInstant # ev.currentDate + 24 * 3600000
    /\ result.message.date = ev.resetInstant \div 86400000

C8_Witness ==
  /\ Exhausted
  /\ ~ev.isSubscribed
  /\ ev.count >= 10
  /\ ev.resetInstant = ev.currentDate + 3600024

CustomersOf(u) == { c \in stripeCustomers : c.owner = u }
AllCallsEnded == \A c \in Calls : cpc[c] \in {"returned", "thrown"}

\* C9: under any interleaving of createCustomerIfNull calls at most one
\* payment customer exists per user with a record, and once every call has
\* ended each call that returned gave the identifier stored for its user.
C9_SingleCustomer ==
  /\ \A u \in UserIds : Cardinality(CustomersOf(u)) <= 1
  /\ AllCallsEnded =>
       \A c \in Calls :
         cpc[c] = "returned" =>
           cret[c] = userDB[cloc[c].user].stripe_customer_id

\* C10: a row of the user created at the instant of the evaluation, and stored
\* before it counts, is included in the count the evaluation uses.
C10_RecentCounted ==
  (Decided /\ StoreAsCounted) =>
    ev.count >= RowsWithin(ev.userId, ev.currentDate, ev.currentDate)

====
